---- MODULE Spec2Model ----
(***************************************************************************)
(* The flipper ink! contract of src/lib.rs: one stored boolean, three      *)
(* constructors (new, new_default, from_seed), three messages (flip,       *)
(* flip_with_seed, get), the Flipped event and the seed derivation         *)
(* seed_to_value.                                                          *)
(*                                                                         *)
(* Invocations run one at a time to completion, so each constructor or     *)
(* message is one action.  The variables `last` and `prev` are history     *)
(* variables: they record the two most recent invocations (what was        *)
(* called, with which argument, from which stored value, and what it       *)
(* returned) so that properties of a call can be stated over states; the   *)
(* history variable `tally` counts the flip calls and the successful       *)
(* flip_with_seed calls and remembers the value that the most recent       *)
(* successful constructor or flip_with_seed returned; `watch` and `memo`   *)
(* follow one seed through a run, remembering what was first derived from  *)
(* it and in which state.                                                  *)
(***************************************************************************)
EXTENDS Integers, Sequences, FiniteSets

VARIABLES
    inst,      \* TRUE once a constructor has returned a Flipper
    value,     \* Flipper.value, the stored boolean (meaningful when inst)
    events,    \* the Flipped events published so far, oldest first
    last,      \* the most recent invocation
    prev,      \* the invocation before it
    tally,     \* what has been invoked so far, counted
    watch,     \* the seed whose derivations are followed (NoArg: none)
    memo       \* the first derivation from the seed `watch`

vars == <<inst, value, events, last, prev, tally, watch, memo>>

----------------------------------------------------------------------------
(* Seeds *)

\* A Hash is 32 bytes.
HashLen == 32

\* A u32 is kept as two 16-bit limbs, hi * 2^16 + lo, so that its arithmetic
\* is modulo 2^32.
LimbMod == 65536

\* Byte values the seeds are built from: zero, an odd byte, an even byte,
\* the largest byte.
ByteVals == {0, 1, 2, 255}

\* A seed is a run of one to MaxHead bytes that all carry one byte of
\* ByteVals, followed by bytes that all carry one (other or the same) byte of
\* ByteVals.
MaxHead == 1

\* The longest event log the model explores.
MaxEvents == 3

Seeds ==
    { [i \in 1..HashLen |-> IF i <= k THEN h ELSE f] :
        k \in 1..MaxHead, h \in ByteVals, f \in ByteVals }

\* The argument recorded for an invocation that takes none.
NoArg == <<>>

----------------------------------------------------------------------------
(* Results *)

Ok(v) == [tag |-> "Ok", val |-> v]

Err(e) == [tag |-> "Err", err |-> e]

\* The return value of a message that returns ().
Unit == [tag |-> "Unit"]

ZeroSum == "ZeroSum"

\* The event record Flipped { old, new }.
Flipped(o, n) == [old |-> o, new |-> n]

----------------------------------------------------------------------------
(* seed_to_value *)

\* b as u32
AsU32(b) == [hi |-> 0, lo |-> b]

\* The u32 zero that sum() starts from.
U32Zero == [hi |-> 0, lo |-> 0]

U32Add_u8(x, y) == [hi |-> 0, lo |-> (x.lo + y.lo) % 256]

\* u32 addition, modulo 2^32.
U32Add(x, y) ==
    LET lo == x.lo + y.lo
    IN  [hi |-> (x.hi + y.hi + (lo \div LimbMod)) % LimbMod,
         lo |-> lo % LimbMod]

\* sum % 2 for a u32 (2^16 is even, so only the low limb counts).
U32Rem2(x) == x.lo % 2

\* seed.iter().map(|&b| b as u32).sum(): a left fold of u32 additions
\* starting from 0.
RECURSIVE SumFrom(_, _, _)
SumFrom(seed, i, acc) ==
    IF i > Len(seed) THEN acc
    ELSE SumFrom(seed, i + 1, U32Add(acc, AsU32(seed[i])))

ByteSum(seed) == SumFrom(seed, 1, U32Zero)

seed_to_value_parity_swapped(seed) ==
    LET sum == ByteSum(seed)
    IN  IF ~(sum # U32Zero) THEN Err(ZeroSum) ELSE Ok(U32Rem2(sum) = 1)

seed_to_value_no_ensure(seed) ==
    LET sum == ByteSum(seed)
    IN  Ok(U32Rem2(sum) = 0)

seed_to_value_stateful(seed) ==
    LET sum == ByteSum(seed)
    IN  IF ~(sum # U32Zero) THEN Err(ZeroSum)
        ELSE Ok((U32Rem2(sum) = 0) # value)

\* let sum: u32 = ...; ensure!(sum != 0, FlipperError::ZeroSum);
\* Ok(sum % 2 == 0)
seed_to_value(seed) ==
    LET sum == ByteSum(seed)
    IN  IF ~(sum # U32Zero) THEN Err(ZeroSum) ELSE Ok(U32Rem2(sum) = 0)

----------------------------------------------------------------------------
(* The state machine *)

\* What an invocation leaves in the history.
\* op: the constructor or message; arg: its argument (NoArg if it takes
\* none); inst, pre, events: the state it was invoked in; ret: what it
\* returned.
Call(op, arg, ret) ==
    [op |-> op, arg |-> arg, inst |-> inst, pre |-> value,
     events |-> events, ret |-> ret]

\* The tally after the invocation c.
\* flips: the flip calls so far; seeded: the flip_with_seed calls so far
\* that returned Ok; set: the value returned by the most recent constructor
\* or flip_with_seed that succeeded; since: the flip calls after it.
Tally(t, c) ==
    IF c.op = "flip"
    THEN [t EXCEPT !.flips = @ + 1, !.since = @ + 1]
    ELSE IF c.op = "flip_with_seed" /\ c.ret.tag = "Ok"
    THEN [t EXCEPT !.seeded = @ + 1, !.set = c.ret.val, !.since = 0]
    ELSE IF c.op = "from_seed" /\ c.ret.tag = "Ok"
    THEN [t EXCEPT !.set = c.ret.val.value, !.since = 0]
    ELSE IF c.op \in {"new", "new_default"}
    THEN [t EXCEPT !.set = c.ret.value, !.since = 0]
    ELSE t

\* The Result<bool, FlipperError> that seed_to_value handed to the
\* seed-taking operation c, read off what c returned.
Derived(c) ==
    IF c.ret.tag = "Err" THEN c.ret
    ELSE IF c.op = "from_seed" THEN Ok(c.ret.val.value)
    ELSE c.ret

TakesSeed(c) == c.op \in {"from_seed", "flip_with_seed"}

\* Nothing derived from the watched seed yet.
NoMemo == [set |-> FALSE]

\* The memo after the invocation c: the first invocation that derives a
\* value from the watched seed is remembered with its result.
Remember(m, c) ==
    IF ~m.set /\ TakesSeed(c) /\ c.arg = watch
    THEN [set |-> TRUE, first |-> c, derived |-> Derived(c)]
    ELSE m

\* The invocation that was the most recent one becomes the previous one,
\* and the one that just ran is counted and, if need be, remembered.
Shift ==
    /\ prev' = last
    /\ tally' = Tally(tally, last')
    /\ memo' = Remember(memo, last')
    /\ UNCHANGED watch

\* The history before anything was invoked.
NoCall ==
    [op |-> "none", arg |-> <<>>, inst |-> FALSE, pre |-> FALSE,
     events |-> <<>>, ret |-> [tag |-> "Unit"]]

\* Before deployment: no instance, nothing published, nothing called.
Undeployed ==
    /\ inst = FALSE
    /\ value = FALSE
    /\ events = <<>>
    /\ last = NoCall
    /\ prev = NoCall
    /\ tally = [flips |-> 0, seeded |-> 0, set |-> FALSE, since |-> 0]
    /\ memo = NoMemo

Init ==
    /\ Undeployed
    /\ watch = NoArg

\* The value Self { value } that a constructor returns.
Self(v) == [tag |-> "Self", value |-> v]

\* A plain (non-Result) boolean return value.
Val(v) == [tag |-> "Val", val |-> v]

\* Default::default() for bool.
BoolDefault == FALSE

\* The host stores the Self a constructor returned: the instance exists.
Instantiate(op, arg, v, ret) ==
    /\ inst' = TRUE
    /\ value' = v
    /\ last' = Call(op, arg, ret)
    /\ Shift
    /\ UNCHANGED events

new_negated(init_value) ==
    /\ ~inst
    /\ Instantiate("new", init_value, ~init_value, Self(~init_value))

\* Self { value: init_value }
new(init_value) ==
    /\ ~inst
    /\ Instantiate("new", init_value, init_value, Self(init_value))

new_default_true ==
    /\ ~inst
    /\ Instantiate("new_default", NoArg, ~BoolDefault, Self(~BoolDefault))

\* Self::new(Default::default())
new_default ==
    /\ ~inst
    /\ Instantiate("new_default", NoArg, BoolDefault, Self(BoolDefault))

from_seed_default_on_err(seed) ==
    /\ ~inst
    /\ LET r == seed_to_value(seed)
       IN  IF r.tag = "Err"
           THEN Instantiate("from_seed", seed, BoolDefault, r)
           ELSE Instantiate("from_seed", seed, r.val, Ok(Self(r.val)))

\* let value = seed_to_value(seed)?; Ok(Self { value })
from_seed(seed) ==
    /\ ~inst
    /\ LET r == seed_to_value(seed)
       IN  IF r.tag = "Err"
           THEN /\ last' = Call("from_seed", seed, r)
                /\ Shift
                /\ UNCHANGED <<inst, value, events>>
           ELSE Instantiate("from_seed", seed, r.val, Ok(Self(r.val)))

flip_with_seed_assign_first(seed) ==
    /\ inst
    /\ LET r == seed_to_value(seed)
       IN  IF r.tag = "Err"
           THEN /\ value' = BoolDefault
                /\ last' = Call("flip_with_seed", seed, r)
                /\ Shift
                /\ UNCHANGED <<inst, events>>
           ELSE /\ Len(events) < MaxEvents
                /\ value' = r.val
                /\ events' = Append(events, Flipped(~value', r.val))
                /\ last' = Call("flip_with_seed", seed, Ok(r.val))
                /\ Shift
                /\ UNCHANGED inst

flip_with_seed_toggle(seed) ==
    /\ inst
    /\ LET r == seed_to_value(seed)
       IN  IF r.tag = "Err"
           THEN /\ last' = Call("flip_with_seed", seed, r)
                /\ Shift
                /\ UNCHANGED <<inst, value, events>>
           ELSE /\ Len(events) < MaxEvents
                /\ value' = (value # r.val)
                /\ events' = Append(events, Flipped(~value', r.val))
                /\ last' = Call("flip_with_seed", seed, Ok(r.val))
                /\ Shift
                /\ UNCHANGED inst

flip_with_seed_old_before(seed) ==
    /\ inst
    /\ LET r == seed_to_value(seed)
       IN  IF r.tag = "Err"
           THEN /\ last' = Call("flip_with_seed", seed, r)
                /\ Shift
                /\ UNCHANGED <<inst, value, events>>
           ELSE /\ Len(events) < MaxEvents
                /\ value' = r.val
                /\ events' = Append(events, Flipped(value, r.val))
                /\ last' = Call("flip_with_seed", seed, Ok(r.val))
                /\ Shift
                /\ UNCHANGED inst

flip_with_seed_skip_unchanged(seed) ==
    /\ inst
    /\ LET r == seed_to_value(seed)
       IN  IF r.tag = "Err"
           THEN /\ last' = Call("flip_with_seed", seed, r)
                /\ Shift
                /\ UNCHANGED <<inst, value, events>>
           ELSE /\ Len(events) < MaxEvents
                /\ value' = r.val
                /\ events' = IF value = r.val THEN events
                             ELSE Append(events, Flipped(~value', r.val))
                /\ last' = Call("flip_with_seed", seed, Ok(r.val))
                /\ Shift
                /\ UNCHANGED inst

\* let new_value = seed_to_value(seed)?;
\* self.value = new_value;
\* emit_event(Flipped { old: !self.value, new: new_value });
\* Ok(new_value)
flip_with_seed(seed) ==
    /\ inst
    /\ LET r == seed_to_value(seed)
       IN  IF r.tag = "Err"
           THEN /\ last' = Call("flip_with_seed", seed, r)
                /\ Shift
                /\ UNCHANGED <<inst, value, events>>
           ELSE /\ Len(events) < MaxEvents
                /\ value' = r.val
                /\ events' = Append(events, Flipped(~value', r.val))
                /\ last' = Call("flip_with_seed", seed, Ok(r.val))
                /\ Shift
                /\ UNCHANGED inst

flip_no_negate ==
    /\ inst
    /\ Len(events) < MaxEvents
    /\ value' = value
    /\ events' = Append(events, Flipped(~value', value'))
    /\ last' = Call("flip", NoArg, Unit)
    /\ Shift
    /\ UNCHANGED inst

flip_set_true ==
    /\ inst
    /\ Len(events) < MaxEvents
    /\ value' = TRUE
    /\ events' = Append(events, Flipped(~value', value'))
    /\ last' = Call("flip", NoArg, Unit)
    /\ Shift
    /\ UNCHANGED inst

flip_old_after ==
    /\ inst
    /\ Len(events) < MaxEvents
    /\ value' = ~value
    /\ events' = Append(events, Flipped(value', value'))
    /\ last' = Call("flip", NoArg, Unit)
    /\ Shift
    /\ UNCHANGED inst

flip_silent ==
    /\ inst
    /\ Len(events) < MaxEvents
    /\ value' = ~value
    /\ last' = Call("flip", NoArg, Unit)
    /\ Shift
    /\ UNCHANGED <<inst, events>>

flip_event_swapped ==
    /\ inst
    /\ Len(events) < MaxEvents
    /\ value' = ~value
    /\ events' = Append(events, Flipped(value', ~value'))
    /\ last' = Call("flip", NoArg, Unit)
    /\ Shift
    /\ UNCHANGED inst

\* self.value = !self.value;
\* emit_event(Flipped { old: !self.value, new: self.value })
flip ==
    /\ inst
    /\ Len(events) < MaxEvents
    /\ value' = ~value
    /\ events' = Append(events, Flipped(~value', value'))
    /\ last' = Call("flip", NoArg, Unit)
    /\ Shift
    /\ UNCHANGED inst

get_negated ==
    /\ inst
    /\ last' = Call("get", NoArg, Val(~value))
    /\ Shift
    /\ UNCHANGED <<inst, value, events>>

\* self.value
get ==
    /\ inst
    /\ last' = Call("get", NoArg, Val(value))
    /\ Shift
    /\ UNCHANGED <<inst, value, events>>

Next ==
    \/ \E init_value \in BOOLEAN : new(init_value)
    \/ new_default
    \/ \E seed \in Seeds : from_seed(seed)
    \/ \E seed \in Seeds : flip_with_seed(seed)
    \/ flip
    \/ get

Spec == Init /\ [][Next]_vars

\* The runs that follow one seed: any seed may be the watched one, and the
\* seed-taking operations are invoked with the watched seed or with one of
\* three others (the all-zero seed, one of even and one of odd byte sum).
InitWatch ==
    /\ Undeployed
    /\ watch \in Seeds

WatchArgs ==
    {watch,
     [i \in 1..HashLen |-> 0],
     [i \in 1..HashLen |-> 2],
     [i \in 1..HashLen |-> IF i = 1 THEN 1 ELSE 0]}

NextWatch ==
    \/ \E init_value \in BOOLEAN : new(init_value)
    \/ new_default
    \/ \E seed \in WatchArgs : from_seed(seed)
    \/ \E seed \in WatchArgs : flip_with_seed(seed)
    \/ flip
    \/ get

SpecWatch == InitWatch /\ [][NextWatch]_vars

----------------------------------------------------------------------------
(* Vocabulary of the properties *)

\* Every byte of the seed is zero.
AllZero(seed) == \A i \in 1..Len(seed) : seed[i] = 0

\* The sum of the seed's bytes is even, told without adding them up: an
\* even number of the bytes are odd.
EvenByteSum(seed) ==
    Cardinality({i \in 1..Len(seed) : seed[i] % 2 = 1}) % 2 = 0

\* The seed whose 32 bytes all equal b.
Fill(b) == [i \in 1..HashLen |-> b]

\* The seed of one byte b followed by zero bytes.
OneThenZeros(b) == [i \in 1..HashLen |-> IF i = 1 THEN b ELSE 0]

\* The sum of the seed's bytes as a mathematical integer.
RECURSIVE MathSumFrom(_, _)
MathSumFrom(seed, i) ==
    IF i > Len(seed) THEN 0 ELSE seed[i] + MathSumFrom(seed, i + 1)

MathSum(seed) == MathSumFrom(seed, 1)

\* The invocation c published an event: it is a flip, or a flip_with_seed
\* that returned Ok.
Mutated(c) ==
    \/ c.op = "flip"
    \/ c.op = "flip_with_seed" /\ c.ret.tag = "Ok"

\* The most recently published event.
LastEvent == events[Len(events)]

\* The last invocation published exactly the event e and nothing else.
Emitted(e) == events = Append(last.events, e)

\* The last invocation published nothing.
EmittedNothing == events = last.events

----------------------------------------------------------------------------
(* Properties *)

\* C1: a call to flip changes the stored value to the negation of the value
\* stored before the call, and returns normally (flip has no failure
\* outcome).
C1_FlipNegates ==
    last.op = "flip" => (inst /\ value = ~last.pre /\ last.ret = Unit)

C1_Witness ==
    last.op = "flip" /\ last.pre = TRUE /\ value = FALSE

\* C2: after two consecutive calls to flip the stored value, and so what get
\* returns next, is the value stored before the first of the two.
C2_FlipTwiceRestores ==
    (last.op = "flip" /\ prev.op = "flip") => value = prev.pre

C2_Witness ==
    last.op = "flip" /\ prev.op = "flip" /\ prev.pre = FALSE /\ value = FALSE

\* C3: new(b) creates an instance whose value is b, and a get invoked right
\* after new(b) returns b.
C3_NewStoresArgument ==
    /\ last.op = "new" => (inst /\ value = last.arg)
    /\ (last.op = "get" /\ prev.op = "new") => last.ret = Val(prev.arg)

C3_Witness ==
    last.op = "get" /\ prev.op = "new" /\ prev.arg = TRUE
        /\ last.ret = Val(TRUE)

\* C4: new_default creates an instance whose value is false, exactly the
\* instance new(false) returns, and a get invoked right after it returns
\* false.
C4_NewDefaultIsFalse ==
    /\ last.op = "new_default" =>
          (inst /\ value = FALSE /\ last.ret = Self(FALSE) /\ EmittedNothing)
    /\ (last.op = "get" /\ prev.op = "new_default") => last.ret = Val(FALSE)

C4_Witness ==
    last.op = "get" /\ prev.op = "new_default" /\ last.ret = Val(FALSE)

\* C5: seed_to_value fails with ZeroSum exactly when every byte of the seed
\* is zero; for any other seed it yields true when the byte sum is even and
\* false when it is odd.  In particular 32 bytes 0x02 give true, 32 bytes
\* 0x01 give true, and 0x01 followed by zeros gives false.
C5_SeedToValue ==
    TakesSeed(last) =>
        /\ Derived(last) = Err(ZeroSum) <=> AllZero(last.arg)
        /\ ~AllZero(last.arg) => Derived(last) = Ok(EvenByteSum(last.arg))
        /\ last.arg = Fill(2) => Derived(last) = Ok(TRUE)
        /\ last.arg = Fill(1) => Derived(last) = Ok(TRUE)
        /\ last.arg = OneThenZeros(1) => Derived(last) = Ok(FALSE)

C5_Witness ==
    /\ last.op = "flip_with_seed"
    /\ last.arg = OneThenZeros(1)
    /\ last.ret = Ok(FALSE)
    /\ prev.op = "flip_with_seed"
    /\ prev.arg = Fill(0)
    /\ prev.ret = Err(ZeroSum)

\* C6: flip_with_seed with an all-zero seed returns Err(ZeroSum), leaves the
\* stored value as it was and publishes no event.
C6_FlipWithZeroSeedAppliesNothing ==
    (last.op = "flip_with_seed" /\ AllZero(last.arg)) =>
        /\ last.ret = Err(ZeroSum)
        /\ inst
        /\ value = last.pre
        /\ EmittedNothing

C6_Witness ==
    /\ last.op = "flip_with_seed"
    /\ AllZero(last.arg)
    /\ last.pre = TRUE
    /\ value = TRUE
    /\ events # <<>>

\* C7: flip_with_seed with a seed of non-zero byte sum stores
\* seed_to_value(seed), returns Ok of that value and publishes one Flipped
\* event whose new field is that value, whatever was stored before.
C7_FlipWithSeedStoresDerived ==
    (last.op = "flip_with_seed" /\ ~AllZero(last.arg)) =>
        LET v == seed_to_value(last.arg).val
        IN  /\ value = v
            /\ last.ret = Ok(v)
            /\ Len(events) = Len(last.events) + 1
            /\ Emitted(LastEvent)
            /\ LastEvent.new = v

C7_Witness ==
    /\ last.op = "flip_with_seed"
    /\ ~AllZero(last.arg)
    /\ last.pre = TRUE
    /\ value = TRUE
    /\ last.ret = Ok(TRUE)

\* C8: from_seed with a seed of non-zero byte sum creates an instance whose
\* value is seed_to_value(seed); with an all-zero seed it returns
\* Err(ZeroSum), creates no instance and publishes no event.
C8_FromSeed ==
    last.op = "from_seed" =>
        IF AllZero(last.arg)
        THEN /\ last.ret = Err(ZeroSum)
             /\ ~inst
             /\ EmittedNothing
        ELSE /\ inst
             /\ value = seed_to_value(last.arg).val
             /\ last.ret = Ok(Self(value))

C8_Witness ==
    last.op = "from_seed" /\ AllZero(last.arg) /\ ~inst
        /\ prev.op = "from_seed"

\* C9: the Flipped event that flip publishes has old equal to the value
\* stored before the call and new equal to the value stored after it.
C9_FlipEvent ==
    last.op = "flip" => Emitted(Flipped(last.pre, value))

C9_Witness ==
    /\ last.op = "flip"
    /\ Len(events) > 1
    /\ LastEvent = Flipped(TRUE, FALSE)
    /\ last.pre = TRUE

\* C10: the Flipped event that a successful flip_with_seed publishes has
\* old equal to the value stored before the call and new equal to the value
\* stored after it.
C10_FlipWithSeedEvent ==
    (last.op = "flip_with_seed" /\ last.ret.tag = "Ok") =>
        Emitted(Flipped(last.pre, value))

\* C11: the number of events published equals the number of flip calls plus
\* the number of flip_with_seed calls that returned Ok; each of those calls
\* publishes exactly one event, and a constructor, a get or a flip_with_seed
\* that returned Err(ZeroSum) publishes none.
C11_OneEventPerMutation ==
    /\ Len(events) = tally.flips + tally.seeded
    /\ Mutated(last) => Len(events) = Len(last.events) + 1
    /\ (last.op # "none" /\ ~Mutated(last)) => EmittedNothing

C11_Witness ==
    /\ last.op = "flip_with_seed"
    /\ last.ret = Err(ZeroSum)
    /\ prev.op = "get"
    /\ tally.flips = 1
    /\ tally.seeded = 1
    /\ Len(events) = 2

\* C12: get returns the stored value, leaves the stored value and the event
\* log as they were and does not fail; two consecutive get calls return the
\* same value.
C12_GetIsPure ==
    /\ last.op = "get" =>
          /\ last.ret = Val(value)
          /\ value = last.pre
          /\ inst
          /\ EmittedNothing
    /\ (last.op = "get" /\ prev.op = "get") => last.ret = prev.ret

C12_Witness ==
    /\ last.op = "get"
    /\ prev.op = "get"
    /\ last.ret = Val(TRUE)
    /\ events # <<>>

\* C13: new, new_default, flip and get never return an error; from_seed and
\* flip_with_seed return an error exactly when the seed is all zero bytes,
\* and that error is ZeroSum.
C13_OnlyZeroSum ==
    /\ last.op \in {"new", "new_default", "flip", "get"} =>
          last.ret.tag # "Err"
    /\ TakesSeed(last) =>
          /\ last.ret.tag = "Err" <=> AllZero(last.arg)
          /\ last.ret.tag = "Err" => last.ret.err = ZeroSum

C13_Witness ==
    /\ last.op = "from_seed"
    /\ AllZero(last.arg)
    /\ last.ret = Err(ZeroSum)

\* C14: whenever a value is derived from a seed of non-zero byte sum from
\* which a value was derived before, the two derived booleans are equal,
\* whatever is stored and whatever was invoked in between.
C14_DerivationIsStateIndependent ==
    (memo.set /\ TakesSeed(last) /\ last.arg = watch /\ ~AllZero(watch)) =>
        Derived(last) = memo.derived

C14_Witness ==
    /\ memo.set
    /\ ~AllZero(watch)
    /\ last.op = "flip_with_seed"
    /\ last.arg = watch
    /\ memo.first.op = "from_seed"
    /\ last.pre # memo.first.pre
    /\ prev.op = "flip"
    /\ Derived(last) = memo.derived

C16_SumDoesNotOverflow ==
    TakesSeed(last) =>
        LET sum == ByteSum(last.arg)
        IN  /\ sum.hi = 0
            /\ sum.lo = MathSum(last.arg)
            /\ MathSum(last.arg) <= HashLen * 255

C16_Witness ==
    /\ TakesSeed(last)
    /\ last.arg = Fill(255)
    /\ ByteSum(last.arg) = [hi |-> 0, lo |-> 8160]

\* C17: the stored value of an instance is the value that the most recent
\* successful constructor or flip_with_seed returned, negated once for each
\* flip call since then.
C17_ValueIsSetXorFlips ==
    inst => value = (tally.set # (tally.since % 2 = 1))

C17_Witness ==
    /\ last.op = "flip_with_seed"
    /\ last.ret.tag = "Err"
    /\ prev.op = "get"
    /\ tally.seeded = 1
    /\ tally.since = 1
    /\ tally.set = TRUE
    /\ value = FALSE

\* C18: the new field of the most recently published event equals the
\* stored value, so a get returns it.
C18_LastEventNewIsValue ==
    /\ (inst /\ events # <<>>) => LastEvent.new = value
    /\ (last.op = "get" /\ events # <<>>) => last.ret = Val(LastEvent.new)

C18_Witness ==
    /\ last.op = "get"
    /\ prev.op = "flip_with_seed"
    /\ prev.ret.tag = "Ok"
    /\ Len(events) > 1
    /\ last.ret = Val(LastEvent.new)

====
